---- MODULE Spec2Model ----
(***************************************************************************)
(* Model of pytensor.tensor.nnet.conv3d2d (diagonal subtensor view, its    *)
(* accumulate counterpart, and conv3d built on them) and of                *)
(* pytensor.sandbox.fourier.FFT.                                           *)
(*                                                                         *)
(* An ndarray is a descriptor [buf, off, shape, strides] over a flat       *)
(* buffer held in mem; strides and offsets are counted in elements.  Axis  *)
(* numbers and indices are 0-based as in the source; axis k of a           *)
(* descriptor is position k+1 of its shape and strides sequences.          *)
(***************************************************************************)
EXTENDS Integers, Sequences, FiniteSets, TLC

\* ------------------------------------------------------------------ bounds
MaxExt == 2          \* largest extent of an axis of x
MaxSteps == 2        \* operations executed on one tensor
MaxAmt == 2          \* number of distinct amt / gradient fills
MaxT == 3            \* largest Ts and Tf of a conv3d call
MaxFrames == 2       \* largest extent of the frames matrix of an FFT
MaxPoints == 3       \* largest n of an n-point FFT

\* ------------------------------------------------------------- arithmetic
Min(a, b) == IF a < b THEN a ELSE b
Max(a, b) == IF a > b THEN a ELSE b

RECURSIVE Prod(_)
Prod(s) == IF s = <<>> THEN 1 ELSE Head(s) * Prod(Tail(s))

RECURSIVE SumOver(_, _)
\* sum of f[e] over the finite set S
SumOver(f, S) ==
    IF S = {} THEN 0
    ELSE LET e == CHOOSE e \in S : TRUE IN f[e] + SumOver(f, S \ {e})

\* ------------------------------------------------------------------ arrays
NoneVal == [none |-> TRUE]

\* strides of a freshly allocated C-contiguous array
RECURSIVE CStrides(_)
CStrides(shape) ==
    IF shape = <<>> THEN <<>>
    ELSE <<Prod(Tail(shape))>> \o CStrides(Tail(shape))

Size(shape) == Prod(shape)

RECURSIVE Indices(_)
\* every index tuple of an array of this shape
Indices(shape) ==
    IF shape = <<>> THEN {<<>>}
    ELSE {<<a>> \o r : a \in 0..(Head(shape) - 1), r \in Indices(Tail(shape))}

RECURSIVE DotFrom(_, _, _)
DotFrom(idx, strides, k) ==
    IF k > Len(idx) THEN 0
    ELSE idx[k] * strides[k] + DotFrom(idx, strides, k + 1)

Dot(idx, strides) == DotFrom(idx, strides, 1)

\* position in the buffer (0-based) of element idx of array a
Addr(a, idx) == a.off + Dot(idx, a.strides)

Load(m, a, idx) == m[a.buf][Addr(a, idx) + 1]

\* index tuple of the p-th element (0-based) in C order
RECURSIVE Unravel(_, _)
Unravel(p, shape) ==
    IF shape = <<>> THEN <<>>
    ELSE <<(p \div Prod(Tail(shape))) % Head(shape)>> \o Unravel(p, Tail(shape))

Ravel(idx, shape) == Dot(idx, CStrides(shape))

\* the contents of an array as a function of the index tuple
Dense(m, a) == [idx \in Indices(a.shape) |-> Load(m, a, idx)]

\* numpy.ndarray(shape) over a fresh buffer named b
NewArray(b, shape) ==
    [buf |-> b, off |-> 0, shape |-> shape, strides |-> CStrides(shape)]

\* ndarray.copy(): a C-contiguous copy of a in buffer b
CopyData(m, a) ==
    [p \in 1..Size(a.shape) |-> Load(m, a, Unravel(p - 1, a.shape))]

\* a.__iadd__(amt) through the descriptor a: every element of amt is added
\* at the address its index maps to
IAdd(m, a, amt) ==
    [m EXCEPT ![a.buf] =
        [p \in 1..Len(m[a.buf]) |->
            m[a.buf][p]
            + SumOver(amt, {vi \in Indices(a.shape) : Addr(a, vi) + 1 = p})]]

\* start of slice(start, None, None) on an axis of length n (Python slicing)
SliceStart(start, n) ==
    IF start < 0 THEN Max(start + n, 0) ELSE Min(start, n)

Raise(e) == [err |-> e, val |-> NoneVal]
Return(v) == [err |-> "none", val |-> v]

\* --------------------------------------------- get_diagonal_subtensor_view
\* variant: the stride of i1 is left as it is (no skew)
view_no_skew(x, i0, i1) ==
    IF x.shape[i0 + 1] < x.shape[i1 + 1]
    THEN Raise("NotImplementedError")
    ELSE LET start == SliceStart(x.shape[i1 + 1] - 1, x.shape[i0 + 1])
         IN Return([buf |-> x.buf,
                    off |-> x.off + start * x.strides[i0 + 1],
                    shape |-> [x.shape EXCEPT ![i0 + 1] = @ - start],
                    strides |-> x.strides])

\* variant: the slice of i0 starts at shape[i1] instead of shape[i1] - 1
view_slice_off_by_one(x, i0, i1) ==
    IF x.shape[i0 + 1] < x.shape[i1 + 1]
    THEN Raise("NotImplementedError")
    ELSE LET start == SliceStart(x.shape[i1 + 1], x.shape[i0 + 1])
             xview == [buf |-> x.buf,
                       off |-> x.off + start * x.strides[i0 + 1],
                       shape |-> [x.shape EXCEPT ![i0 + 1] = @ - start],
                       strides |-> x.strides]
             strides == [xview.strides EXCEPT ![i1 + 1] = @ - xview.strides[i0 + 1]]
         IN IF x.shape[i1 + 1] # 1
            THEN Return([xview EXCEPT !.strides = strides])
            ELSE Return(xview)

\* variant: the stride of i1 is reduced by itself instead of by the stride of i0
view_stride_self_subtracted(x, i0, i1) ==
    IF x.shape[i0 + 1] < x.shape[i1 + 1]
    THEN Raise("NotImplementedError")
    ELSE LET start == SliceStart(x.shape[i1 + 1] - 1, x.shape[i0 + 1])
             xview == [buf |-> x.buf,
                       off |-> x.off + start * x.strides[i0 + 1],
                       shape |-> [x.shape EXCEPT ![i0 + 1] = @ - start],
                       strides |-> x.strides]
             strides == [xview.strides EXCEPT ![i1 + 1] = @ - xview.strides[i1 + 1]]
         IN IF x.shape[i1 + 1] # 1
            THEN Return([xview EXCEPT !.strides = strides])
            ELSE Return(xview)

\* variant: no check of shape[i0] against shape[i1]
view_no_check(x, i0, i1) ==
    LET start == SliceStart(x.shape[i1 + 1] - 1, x.shape[i0 + 1])
        xview == [buf |-> x.buf,
                  off |-> x.off + start * x.strides[i0 + 1],
                  shape |-> [x.shape EXCEPT ![i0 + 1] = @ - start],
                  strides |-> x.strides]
        strides == [xview.strides EXCEPT ![i1 + 1] = @ - xview.strides[i0 + 1]]
    IN IF x.shape[i1 + 1] # 1
       THEN Return([xview EXCEPT !.strides = strides])
       ELSE Return(xview)

get_diagonal_subtensor_view(x, i0, i1) ==
    IF x.shape[i0 + 1] < x.shape[i1 + 1]
    THEN Raise("NotImplementedError")
    ELSE LET start == SliceStart(x.shape[i1 + 1] - 1, x.shape[i0 + 1])
             xview == [buf |-> x.buf,
                       off |-> x.off + start * x.strides[i0 + 1],
                       shape |-> [x.shape EXCEPT ![i0 + 1] = @ - start],
                       strides |-> x.strides]
             strides == [xview.strides EXCEPT ![i1 + 1] = @ - xview.strides[i0 + 1]]
         IN IF x.shape[i1 + 1] # 1
            THEN Return([xview EXCEPT !.strides = strides])
            ELSE Return(xview)

\* ------------------------------------------------------------------- state
VARIABLES
    mem,             \* the buffers: mem.x backs x, mem.o the latest allocation
    x,               \* inputs[0] of the diagonal operations
    i0, i1,          \* inputs[1], inputs[2]: the two axes
    output_storage,  \* output_storage[0][0] of the last operation, or None
    out_op,          \* the operation that produced output_storage
    x_init,          \* contents of x at construction
    steps,           \* operations executed so far
    all_default,     \* every operation executed so far had inplace=False
    last,            \* the last operation: its arguments, outcome and pre-state
    cv,              \* conv3d: the call and its outcome
    fv               \* FFT: the node and the outcome of perform

vars == <<mem, x, i0, i1, output_storage, out_op, x_init, steps, all_default,
         last, cv, fv>>

Idle == [op |-> "idle"]

Ranks == {2, 3}
XBases == {0, 1}

Shapes == UNION {[1..r -> 0..MaxExt] : r \in Ranks}

\* contents of amt (or of an upstream gradient): fill k over the given shape
AmtFill(k, shape) == [idx \in Indices(shape) |-> 10 * k + Ravel(idx, shape)]

\* ------------------------------------------------ DiagonalSubtensor.perform
\* outcome: the new buffers, the new output_storage[0][0] and the exception
DiagonalSubtensor_perform(inplace, m, storage, inputs) ==
    LET r == get_diagonal_subtensor_view(inputs[1], inputs[2], inputs[3])
    IN IF r.err # "none"
       THEN [mem |-> m, out |-> storage, err |-> r.err]
       ELSE IF inplace
            THEN [mem |-> m, out |-> r.val, err |-> "none"]
            ELSE [mem |-> [m EXCEPT !.o = CopyData(m, r.val)],
                  out |-> NewArray("o", r.val.shape),
                  err |-> "none"]

\* --------------------------------------------- IncDiagonalSubtensor.perform
\* inputs = <<x, i0, i1, amt>>, amt given by its contents.  Without inplace
\* the copy of x is a fresh allocation; when the view raises, that copy is
\* unreachable and the buffers and the output storage are as before.
\* variant: the view is taken of the input and the copy is made afterwards
inc_perform_view_before_copy(inplace, m, storage, inputs) ==
    LET r == get_diagonal_subtensor_view(inputs[1], inputs[2], inputs[3])
    IN IF r.err # "none"
       THEN [mem |-> m, out |-> storage, err |-> r.err]
       ELSE IF inplace
            THEN [mem |-> IAdd(m, r.val, inputs[4]), out |-> inputs[1], err |-> "none"]
            ELSE [mem |-> [IAdd(m, r.val, inputs[4]) EXCEPT !.o = CopyData(m, inputs[1])],
                  out |-> NewArray("o", inputs[1].shape),
                  err |-> "none"]

IncDiagonalSubtensor_perform(inplace, m, storage, inputs) ==
    LET m1 == IF inplace THEN m ELSE [m EXCEPT !.o = CopyData(m, inputs[1])]
        x1 == IF inplace THEN inputs[1] ELSE NewArray("o", inputs[1].shape)
        r == get_diagonal_subtensor_view(x1, inputs[2], inputs[3])
    IN IF r.err # "none"
       THEN [mem |-> m, out |-> storage, err |-> r.err]
       ELSE [mem |-> IAdd(m1, r.val, inputs[4]), out |-> x1, err |-> "none"]

\* shape of the diagonal view of x, or of x itself when there is none
AmtShape(a, j0, j1) ==
    LET r == get_diagonal_subtensor_view(a, j0, j1)
    IN IF r.err = "none" THEN r.val.shape ELSE a.shape

\* ------------------------------------------------------------------ actions
DiagInit ==
    /\ \E shape \in Shapes, base \in XBases :
          /\ x = NewArray("x", shape)
          /\ mem = [x |-> [p \in 1..Size(shape) |-> p - 1 + base], o |-> <<>>]
    /\ \E j0, j1 \in 0..(Len(x.shape) - 1) : j0 # j1 /\ i0 = j0 /\ i1 = j1
    /\ output_storage = NoneVal
    /\ out_op = Idle
    /\ x_init = mem.x
    /\ steps = 0
    /\ all_default = TRUE
    /\ last = Idle
    /\ cv = Idle
    /\ fv = Idle

DiagonalSubtensorPerform ==
    \E inplace \in BOOLEAN :
        LET r == DiagonalSubtensor_perform(inplace, mem, output_storage, <<x, i0, i1>>)
        IN /\ steps < MaxSteps
           /\ mem' = r.mem
           /\ output_storage' = r.out
           /\ out_op' = IF r.err = "none"
                        THEN [op |-> "DiagonalSubtensor", inplace |-> inplace]
                        ELSE out_op
           /\ last' = [op |-> "DiagonalSubtensor", inplace |-> inplace,
                       err |-> r.err, pre |-> mem, preOut |-> output_storage]
           /\ steps' = steps + 1
           /\ all_default' = (all_default /\ ~inplace)
           /\ UNCHANGED <<x, i0, i1, x_init, cv, fv>>

\* the amt of the n-th call is fill n
IncDiagonalSubtensorPerform ==
    \E inplace \in BOOLEAN :
        LET amt == AmtFill(steps + 1, AmtShape(x, i0, i1))
            r == IncDiagonalSubtensor_perform(inplace, mem, output_storage,
                                              <<x, i0, i1, amt>>)
        IN /\ steps < MaxSteps
           /\ mem' = r.mem
           /\ output_storage' = r.out
           /\ out_op' = IF r.err = "none"
                        THEN [op |-> "IncDiagonalSubtensor", inplace |-> inplace]
                        ELSE out_op
           /\ last' = [op |-> "IncDiagonalSubtensor", inplace |-> inplace,
                       err |-> r.err, pre |-> mem, preOut |-> output_storage,
                       amt |-> amt]
           /\ steps' = steps + 1
           /\ all_default' = (all_default /\ ~inplace)
           /\ UNCHANGED <<x, i0, i1, x_init, cv, fv>>

\* a client of the operation writes one element of the output it was given
WriteVal == 0 - 7
WriteOutput ==
    /\ steps < MaxSteps
    /\ output_storage # NoneVal
    /\ \E idx \in Indices(output_storage.shape) :
          /\ mem' = [mem EXCEPT ![output_storage.buf][Addr(output_storage, idx) + 1]
                                    = WriteVal]
          /\ last' = [op |-> "write", idx |-> idx, pre |-> mem]
    /\ steps' = steps + 1
    /\ UNCHANGED <<x, i0, i1, output_storage, out_op, x_init, all_default, cv, fv>>

DiagNext == DiagonalSubtensorPerform \/ IncDiagonalSubtensorPerform \/ WriteOutput

SpecDiag == DiagInit /\ [][DiagNext]_vars

\* ------------------------------------------------------- symbolic gradients
\* grad() builds graph nodes; Eval runs a node's perform on the values of
\* its inputs.  A value is [shape, data] with data a function of the index
\* tuple, an axis number, or [raised |-> exception].
Disconnected == [node |-> "DisconnectedType"]
Var(n) == [node |-> "var", name |-> n]

\* variant: the two axes are passed on in the other order
diag_grad_axes_swapped(inputs, g_outputs) ==
    LET z == [node |-> "zeros_like", args |-> <<inputs[1]>>]
        gx == [node |-> "IncDiagonalSubtensor", inplace |-> FALSE,
               args |-> <<z, inputs[3], inputs[2], g_outputs[1]>>]
    IN <<gx, Disconnected, Disconnected>>

DiagonalSubtensor_grad(inputs, g_outputs) ==
    LET z == [node |-> "zeros_like", args |-> <<inputs[1]>>]
        gx == [node |-> "IncDiagonalSubtensor", inplace |-> FALSE,
               args |-> <<z, inputs[2], inputs[3], g_outputs[1]>>]
    IN <<gx, Disconnected, Disconnected>>

IncDiagonalSubtensor_grad(inputs, g_outputs) ==
    LET gy == g_outputs[1]
    IN <<gy, Disconnected, Disconnected,
         [node |-> "DiagonalSubtensor", inplace |-> FALSE,
          args |-> <<gy, inputs[2], inputs[3]>>]>>

\* a value as a C-contiguous array in buffer x of a memory of its own
ValMem(v) ==
    [x |-> [p \in 1..Size(v.shape) |-> v.data[Unravel(p - 1, v.shape)]], o |-> <<>>]

ValOf(r) ==
    IF r.err # "none" THEN [raised |-> r.err]
    ELSE [shape |-> r.out.shape, data |-> Dense(r.mem, r.out)]

RECURSIVE Eval(_, _)
Eval(e, env) ==
    CASE e.node = "var" -> env[e.name]
      [] e.node = "zeros_like" ->
            LET v == Eval(e.args[1], env)
            IN [shape |-> v.shape, data |-> [idx \in Indices(v.shape) |-> 0]]
      [] e.node = "DiagonalSubtensor" ->
            LET v == Eval(e.args[1], env)
            IN ValOf(DiagonalSubtensor_perform(e.inplace, ValMem(v), NoneVal,
                        <<NewArray("x", v.shape), Eval(e.args[2], env),
                          Eval(e.args[3], env)>>))
      [] e.node = "IncDiagonalSubtensor" ->
            LET v == Eval(e.args[1], env)
            IN ValOf(IncDiagonalSubtensor_perform(e.inplace, ValMem(v), NoneVal,
                        <<NewArray("x", v.shape), Eval(e.args[2], env),
                          Eval(e.args[3], env), Eval(e.args[4], env).data>>))

\* ----------------------------------------------- the functions, applied once
\* get_diagonal_subtensor_view(x, i0, i1)
ViewApply ==
    /\ steps = 0
    /\ last' = [op |-> "view", res |-> get_diagonal_subtensor_view(x, i0, i1)]
    /\ steps' = 1
    /\ UNCHANGED <<mem, x, i0, i1, output_storage, out_op, x_init, all_default, cv, fv>>

\* IncDiagonalSubtensor(inplace=True) on zeros of x's shape, amt = the view of x
RoundTrip ==
    /\ steps = 0
    /\ LET v == get_diagonal_subtensor_view(x, i0, i1)
           z == [x |-> [p \in 1..Size(x.shape) |-> 0], o |-> <<>>]
       IN last' = [op |-> "roundtrip",
                   res |-> IF v.err # "none" THEN [raised |-> v.err]
                           ELSE ValOf(IncDiagonalSubtensor_perform(TRUE, z, NoneVal,
                                        <<NewArray("x", x.shape), i0, i1,
                                          Dense(mem, v.val)>>))]
    /\ steps' = 1
    /\ UNCHANGED <<mem, x, i0, i1, output_storage, out_op, x_init, all_default, cv, fv>>

XVal == [shape |-> x.shape, data |-> Dense(mem, x)]

\* DiagonalSubtensor.grad for an upstream gradient g of the view's shape
GradDiagonalSubtensor ==
    /\ steps = 0
    /\ \E k \in 1..MaxAmt :
          LET gshape == AmtShape(x, i0, i1)
              g == [shape |-> gshape, data |-> AmtFill(k, gshape)]
              env == [x |-> XVal, i0 |-> i0, i1 |-> i1, g |-> g]
              grads == DiagonalSubtensor_grad(<<Var("x"), Var("i0"), Var("i1")>>,
                                              <<Var("g")>>)
          IN last' = [op |-> "grad_diag", g |-> g, grads |-> grads,
                      gx |-> Eval(grads[1], env)]
    /\ steps' = 1
    /\ UNCHANGED <<mem, x, i0, i1, output_storage, out_op, x_init, all_default, cv, fv>>

\* IncDiagonalSubtensor.grad for an upstream gradient gy of x's shape
GradIncDiagonalSubtensor ==
    /\ steps = 0
    /\ \E k \in 1..MaxAmt :
          LET gy == [shape |-> x.shape, data |-> AmtFill(k, x.shape)]
              ashape == AmtShape(x, i0, i1)
              amt == [shape |-> ashape, data |-> AmtFill(1, ashape)]
              env == [x |-> XVal, i0 |-> i0, i1 |-> i1, amt |-> amt, gy |-> gy]
              grads == IncDiagonalSubtensor_grad(
                           <<Var("x"), Var("i0"), Var("i1"), Var("amt")>>, <<Var("gy")>>)
          IN last' = [op |-> "grad_inc", gy |-> gy, grads |-> grads,
                      gx |-> Eval(grads[1], env), gamt |-> Eval(grads[4], env)]
    /\ steps' = 1
    /\ UNCHANGED <<mem, x, i0, i1, output_storage, out_op, x_init, all_default, cv, fv>>

ViewNext ==
    ViewApply \/ RoundTrip \/ GradDiagonalSubtensor \/ GradIncDiagonalSubtensor

SpecView == DiagInit /\ [][ViewNext]_vars

\* ------------------------------------------------------------------ conv3d
\* Tensors of the conv3d graph are values [shape, data]; every node is run
\* on the values of its inputs, [raised |-> exception] when it raises.
Raised(v) == "raised" \in DOMAIN v

\* tensor.reshape(newshape): the same elements in C order
Reshape(v, newshape) ==
    IF Size(newshape) # Size(v.shape) THEN [raised |-> "ValueError"]
    ELSE [shape |-> newshape,
          data |-> [idx \in Indices(newshape) |->
                       v.data[Unravel(Ravel(idx, newshape), v.shape)]]]

DropAxis(seq, ax) == SubSeq(seq, 1, ax) \o SubSeq(seq, ax + 2, Len(seq))
InsertAxis(seq, ax, e) == SubSeq(seq, 1, ax) \o <<e>> \o SubSeq(seq, ax + 1, Len(seq))

RECURSIVE SumRange(_, _, _, _)
\* sum over k in lo..hi of data[idx with k inserted as coordinate ax]
SumRange(data, idx, ax, k) ==
    IF k < 0 THEN 0
    ELSE data[InsertAxis(idx, ax, k)] + SumRange(data, idx, ax, k - 1)

\* tensor.sum(axis=ax)
SumAxis(v, ax) ==
    [shape |-> DropAxis(v.shape, ax),
     data |-> [idx \in Indices(DropAxis(v.shape, ax)) |->
                  SumRange(v.data, idx, ax, v.shape[ax + 1] - 1)]]

\* diagonal_subtensor(v, j0, j1), the inplace=False instance
diagonal_subtensor(v, j0, j1) ==
    ValOf(DiagonalSubtensor_perform(FALSE, ValMem(v), NoneVal,
                                    <<NewArray("x", v.shape), j0, j1>>))

\* variant: v is written at the start of the time axis
set_time_slice_at_zero(shape, lo, hi, v) ==
    [shape |-> shape,
     data |-> [idx \in Indices(shape) |->
                  IF idx[2] < hi - lo THEN v.data[idx] ELSE 0]]

\* set_subtensor(zeros(shape)[:, lo:hi, ...], v): v written into axis-1 range
\* lo..hi-1 of a zero tensor
SetTimeSlice(shape, lo, hi, v) ==
    [shape |-> shape,
     data |-> [idx \in Indices(shape) |->
                  IF lo <= idx[2] /\ idx[2] < hi
                  THEN v.data[[idx EXCEPT ![2] = @ - lo]]
                  ELSE 0]]

\* output extent of the 2-D convolution primitive along one axis
Conv2dExtent(mode, s, f) ==
    CASE mode = "valid" -> s - f + 1
      [] mode = "full" -> s + f - 1
      [] mode = "half" -> s + 2 * (f \div 2) - f + 1

\* the 2-D convolution primitive: its result is an input of the model, given
\* by the fill k
conv2d(sshape, fshape, border_mode, k) ==
    IF border_mode \notin {"valid", "full", "half"} THEN [raised |-> "ValueError"]
    ELSE LET shape == <<sshape[1], fshape[1],
                        Conv2dExtent(border_mode, sshape[3], fshape[3]),
                        Conv2dExtent(border_mode, sshape[4], fshape[4])>>
         IN IF shape[3] < 1 \/ shape[4] < 1 THEN [raised |-> "ValueError"]
            ELSE [shape |-> shape,
                  data |-> [idx \in Indices(shape) |->
                               ((Ravel(idx, shape) * (k + 1) + k) % 5) + 1]]

\* the intended output size along height or width
OutExtent(mode, s, f) ==
    CASE mode = "valid" -> s - f + 1
      [] mode = "full" -> s + f - 1
      [] mode = "half" -> s - (f % 2) + 1

\* variant: half pads by (Tf - 1) // 2
time_pad_half_low(mode, Tf) ==
    CASE mode = "valid" -> 0
      [] mode = "full" -> Tf - 1
      [] mode = "half" -> (Tf - 1) \div 2

\* the zero padding of the time axis
TimePad(mode, Tf) ==
    CASE mode = "valid" -> 0
      [] mode = "full" -> Tf - 1
      [] mode = "half" -> Tf \div 2

\* variant: full pads by Tf
time_reduction_full_pad_high(out_tmp, mode, Ns, Ts, Nf, Tf, Hout, Wout) ==
    LET Tpad == IF mode = "full" THEN Tf ELSE TimePad(mode, Tf)
        out_tmp_padded ==
            SetTimeSlice(<<Ns, Ts + 2 * Tpad, Nf, Tf, Hout, Wout>>,
                         Tpad, Ts + Tpad, out_tmp)
        diag == IF Tpad = 0 THEN diagonal_subtensor(out_tmp, 1, 3)
                ELSE diagonal_subtensor(out_tmp_padded, 1, 3)
    IN IF mode = "same" THEN [raised |-> "NotImplementedError"]
       ELSE IF mode \notin {"valid", "full", "half"} THEN [raised |-> "ValueError"]
       ELSE IF Raised(diag) THEN diag
       ELSE SumAxis(diag, 3)

\* the branch of conv3d taken for Tf # 1: pad the time axis of out_tmp, take
\* the diagonal over (Ts, Tf) and sum out Tf
TimeReduction(out_tmp, mode, Ns, Ts, Nf, Tf, Hout, Wout) ==
    LET Tpad == TimePad(mode, Tf)
        out_tmp_padded ==
            SetTimeSlice(<<Ns, Ts + 2 * Tpad, Nf, Tf, Hout, Wout>>,
                         Tpad, Ts + Tpad, out_tmp)
        diag == IF Tpad = 0 THEN diagonal_subtensor(out_tmp, 1, 3)
                ELSE diagonal_subtensor(out_tmp_padded, 1, 3)
    IN IF mode = "same" THEN [raised |-> "NotImplementedError"]
       ELSE IF mode \notin {"valid", "full", "half"} THEN [raised |-> "ValueError"]
       ELSE IF Raised(diag) THEN diag
       ELSE SumAxis(diag, 3)

\* the branch of conv3d taken for Tf = 1: drop the unit Tf axis
DropUnitTf(out_tmp, Ns, Ts, Nf, Hout, Wout) ==
    Reshape(out_tmp, <<Ns, Ts, Nf, Hout, Wout>>)

\* border_mode is [str |-> TRUE, v |-> <<name>>] or [str |-> FALSE, v |-> triple]
conv3d(signals_shape, filters_shape, border_mode, k) ==
    LET bm == IF border_mode.str
              THEN <<border_mode.v[1], border_mode.v[1], border_mode.v[1]>>
              ELSE border_mode.v
        Ns == signals_shape[1]
        Ts == signals_shape[2]
        Hs == signals_shape[4]
        Ws == signals_shape[5]
        Nf == filters_shape[1]
        Tf == filters_shape[2]
        Hf == filters_shape[4]
        Wf == filters_shape[5]
        signals_shape_4d == <<Ns * Ts, signals_shape[3], Hs, Ws>>
        filters_shape_4d == <<Nf * Tf, filters_shape[3], Hf, Wf>>
        out_4d == conv2d(signals_shape_4d, filters_shape_4d, bm[2], k)
        Hout == OutExtent(bm[2], Hs, Hf)
        Wout == OutExtent(bm[2], Ws, Wf)
        out_tmp == Reshape(out_4d, <<Ns, Ts, Nf, Tf, Hout, Wout>>)
    IN IF bm[2] # bm[3] THEN [raised |-> "NotImplementedError"]
       ELSE IF Raised(out_4d) THEN out_4d
       ELSE IF bm[2] = "same" THEN [raised |-> "NotImplementedError"]
       ELSE IF bm[2] \notin {"valid", "full", "half"} THEN [raised |-> "ValueError"]
       ELSE IF Raised(out_tmp) THEN out_tmp
       ELSE IF Tf = 1 THEN DropUnitTf(out_tmp, Ns, Ts, Nf, Hout, Wout)
       ELSE TimeReduction(out_tmp, bm[1], Ns, Ts, Nf, Tf, Hout, Wout)

Modes == {"valid", "full", "half", "same"}
BorderModes ==
    {[str |-> TRUE, v |-> <<b>>] : b \in Modes}
    \cup {[str |-> FALSE, v |-> <<a, b, c>>] : a, b, c \in Modes}

\* (Ns, Nf), the channel count and (Hs, Hf, Ws, Wf) of the calls made
BatchExtents == {<<1, 2>>, <<2, 1>>}
Channels == 1
SpatialExtents == {<<2, hf, 3, wf>> : hf, wf \in {1, 2}}

ConvInit ==
    /\ \E bm \in BorderModes, n \in BatchExtents, sp \in SpatialExtents,
          ts, tf \in 1..MaxT, k \in 1..MaxAmt :
          cv = [op |-> "call",
                border_mode |-> bm,
                signals_shape |-> <<n[1], ts, Channels, sp[1], sp[3]>>,
                filters_shape |-> <<n[2], tf, Channels, sp[2], sp[4]>>,
                k |-> k]
    /\ mem = [x |-> <<>>, o |-> <<>>]
    /\ x = NewArray("x", <<0, 0>>)
    /\ i0 = 0 /\ i1 = 1
    /\ output_storage = NoneVal
    /\ out_op = Idle
    /\ x_init = <<>>
    /\ steps = 0
    /\ all_default = TRUE
    /\ last = Idle
    /\ fv = Idle

Conv3d ==
    /\ cv.op = "call"
    /\ cv' = [op |-> "conv3d",
              border_mode |-> cv.border_mode,
              signals_shape |-> cv.signals_shape,
              filters_shape |-> cv.filters_shape,
              k |-> cv.k,
              res |-> conv3d(cv.signals_shape, cv.filters_shape,
                             cv.border_mode, cv.k)]
    /\ UNCHANGED <<mem, x, i0, i1, output_storage, out_op, x_init, steps,
                   all_default, last, fv>>

SpecConv == ConvInit /\ [][Conv3d]_vars

\* ---------------------------------------- the two branches on one out_tmp
\* extents (Ns, Nf, Hout, Wout) of the intermediates the branches are run on
TmpExtents == {<<ns, nf, h, w>> : ns, nf, h \in {1, 2}, w \in {1, 3}}

BranchInit ==
    /\ \E e \in TmpExtents, ts \in 1..MaxT, mode \in Modes, k \in 1..MaxAmt :
          LET shape == <<e[1], ts, e[2], 1, e[3], e[4]>>
          IN cv = [op |-> "out_tmp",
                   mode |-> mode,
                   out_tmp |-> [shape |-> shape, data |-> AmtFill(k, shape)],
                   short |-> NoneVal,
                   general |-> NoneVal]
    /\ mem = [x |-> <<>>, o |-> <<>>]
    /\ x = NewArray("x", <<0, 0>>)
    /\ i0 = 0 /\ i1 = 1
    /\ output_storage = NoneVal
    /\ out_op = Idle
    /\ x_init = <<>>
    /\ steps = 0
    /\ all_default = TRUE
    /\ last = Idle
    /\ fv = Idle

\* the Tf = 1 branch on out_tmp
ShortcutBranch ==
    /\ cv.op = "out_tmp"
    /\ cv.short = NoneVal
    /\ LET s == cv.out_tmp.shape
       IN cv' = [cv EXCEPT !.short = DropUnitTf(cv.out_tmp, s[1], s[2], s[3], s[5], s[6])]
    /\ UNCHANGED <<mem, x, i0, i1, output_storage, out_op, x_init, steps,
                   all_default, last, fv>>

\* the Tf # 1 branch on the same out_tmp
GeneralBranch ==
    /\ cv.op = "out_tmp"
    /\ cv.general = NoneVal
    /\ LET s == cv.out_tmp.shape
       IN cv' = [cv EXCEPT !.general =
                    TimeReduction(cv.out_tmp, cv.mode, s[1], s[2], s[3], s[4], s[5], s[6])]
    /\ UNCHANGED <<mem, x, i0, i1, output_storage, out_op, x_init, steps,
                   all_default, last, fv>>

BranchNext == ShortcutBranch \/ GeneralBranch

SpecBranch == BranchInit /\ [][BranchNext]_vars

\* --------------------------------------------------------------------- FFT
\* A matrix is a sequence of rows.  The transform itself is numpy's: entry k
\* of the n-point transform of a line is the term [fn, k, line], line being
\* the input line cut or zero-padded to n points.
Resize(line, n) ==
    [j \in 1..n |-> IF j <= Len(line) THEN line[j] ELSE 0]

Column(frames, c) == [r \in 1..Len(frames) |-> frames[r][c]]

\* numpy.fft.fft / numpy.fft.ifft (a, n, axis) on a 2-d array
numpy_fft(fn, frames, n, axis) ==
    IF n < 1 THEN Raise("ValueError")
    ELSE IF axis < 0 - 2 \/ axis > 1 THEN Raise("AxisError")
    ELSE IF axis % 2 = 1
         THEN Return([r \in 1..Len(frames) |->
                         [k \in 1..n |->
                             [fn |-> fn, k |-> k - 1, line |-> Resize(frames[r], n)]]])
         ELSE Return([k \in 1..n |->
                         [c \in 1..Len(frames[1]) |->
                             [fn |-> fn, k |-> k - 1,
                              line |-> Resize(Column(frames, c), n)]]])

\* a / b of two ints: a float
TrueDiv(a, b) == [float |-> TRUE, floor |-> a \div b]
PyInt(a) == [float |-> FALSE, floor |-> a]

\* a[lo:hi, :] and a[:, lo:hi] for 0 <= lo; a float bound is a TypeError
SliceRows(a, lo, hi) ==
    IF lo.float \/ hi.float THEN Raise("TypeError")
    ELSE Return(SubSeq(a, lo.floor + 1, Min(hi.floor, Len(a))))

SliceCols(a, lo, hi) ==
    IF lo.float \/ hi.float THEN Raise("TypeError")
    ELSE Return([r \in 1..Len(a) |->
                    SubSeq(a[r], lo.floor + 1, Min(hi.floor, Len(a[r])))])

\* FFT.make_node: the exception it raises, or "none"
FFT_make_node(half, dtype) ==
    IF half /\ dtype = "complex128" THEN "TypeError" ELSE "none"

\* FFT.perform: [err, val], val the spectrogram stored in out[0][0]
FFT_perform(half, inverse, frames, n, axis) ==
    LET fft_fn == IF inverse THEN "ifft" ELSE "fft"
        fft == numpy_fft(fft_fn, frames, n, axis)
        M == Len(fft.val)
        N == Len(fft.val[1])
    IN IF fft.err # "none" THEN fft
       ELSE IF half
            THEN IF axis = 0
                 THEN IF M % 2 # 0 THEN Raise("ValueError")
                      ELSE SliceRows(fft.val, PyInt(0), TrueDiv(M, 2))
                 ELSE IF axis = 1
                 THEN IF N % 2 # 0 THEN Raise("ValueError")
                      ELSE SliceCols(fft.val, PyInt(0), TrueDiv(N, 2))
                 ELSE Raise("NotImplementedError")
            ELSE fft

Dtypes == {"float64", "complex128"}
AxisValues == (0 - 3)..2

FFTInit ==
    /\ \E half, inverse \in BOOLEAN, dtype \in Dtypes,
          rows, cols \in 1..MaxFrames, n \in 1..MaxPoints, axis \in AxisValues :
          fv = [op |-> "new", half |-> half, inverse |-> inverse, dtype |-> dtype,
                frames |-> [r \in 1..rows |-> [c \in 1..cols |-> 10 * r + c]],
                n |-> n, axis |-> axis,
                err |-> "none", spectrogram |-> NoneVal]
    /\ mem = [x |-> <<>>, o |-> <<>>]
    /\ x = NewArray("x", <<0, 0>>)
    /\ i0 = 0 /\ i1 = 1
    /\ output_storage = NoneVal
    /\ out_op = Idle
    /\ x_init = <<>>
    /\ steps = 0
    /\ all_default = TRUE
    /\ last = Idle
    /\ cv = Idle

FFTMakeNode ==
    /\ fv.op = "new"
    /\ fv' = [fv EXCEPT !.op = "make_node",
                        !.err = FFT_make_node(fv.half, fv.dtype)]
    /\ UNCHANGED <<mem, x, i0, i1, output_storage, out_op, x_init, steps,
                   all_default, last, cv>>

FFTPerform ==
    /\ fv.op = "make_node"
    /\ fv.err = "none"
    /\ LET r == FFT_perform(fv.half, fv.inverse, fv.frames, fv.n, fv.axis)
       IN fv' = [fv EXCEPT !.op = "perform", !.err = r.err, !.spectrogram = r.val]
    /\ UNCHANGED <<mem, x, i0, i1, output_storage, out_op, x_init, steps,
                   all_default, last, cv>>

FFTNext == FFTMakeNode \/ FFTPerform

SpecFFT == FFTInit /\ [][FFTNext]_vars

\* ----------------------------------------------------- the diagonal stripe
\* The positions of x the claims call the stripe, and the correspondence
\* between an index of x in the stripe and an index of the view.
InStripe(shape, j0, j1, idx) ==
    /\ shape[j1 + 1] - 1 <= idx[j0 + 1] + idx[j1 + 1]
    /\ idx[j0 + 1] + idx[j1 + 1] <= shape[j0 + 1] - 1

ViewIdxOf(shape, j0, j1, idx) ==
    [idx EXCEPT ![j0 + 1] = idx[j0 + 1] + idx[j1 + 1] - (shape[j1 + 1] - 1)]

SrcIdxOf(shape, j0, j1, vidx) ==
    [vidx EXCEPT ![j0 + 1] = vidx[j0 + 1] + (shape[j1 + 1] - 1) - vidx[j1 + 1]]

IsPerform == last.op \in {"DiagonalSubtensor", "IncDiagonalSubtensor"}

\* C5: whenever shape[i0] < shape[i1], a perform of either diagonal
\* operation ends in NotImplementedError with every buffer (so the contents
\* of x) as before and the output storage as before: DiagonalSubtensor
\* stores no output and IncDiagonalSubtensor adds nothing to x.
C5_ShortRowAxisRaises ==
    (IsPerform /\ x.shape[i0 + 1] < x.shape[i1 + 1]) =>
        /\ last.err = "NotImplementedError"
        /\ mem = last.pre
        /\ output_storage = last.preOut
        /\ get_diagonal_subtensor_view(x, i0, i1).val = NoneVal

C5_Witness ==
    /\ last.op = "IncDiagonalSubtensor"
    /\ last.inplace
    /\ x.shape[i0 + 1] < x.shape[i1 + 1]
    /\ x.shape[i0 + 1] >= 1
    /\ last.err = "NotImplementedError"
    /\ mem.x = x_init

\* C6: (a) while every executed operation had inplace=False, x holds its
\* initial contents and the output does not live in x's buffer, also after
\* writes to the outputs; (b) IncDiagonalSubtensor with inplace=True returns
\* x itself, each stripe position incremented by the matching element of amt
\* and every other position as before; (c) a write to the output of
\* DiagonalSubtensor with inplace=True changes exactly the corresponding
\* stripe position of x.
C6_DefaultCopies ==
    all_default =>
        /\ mem.x = x_init
        /\ output_storage # NoneVal => output_storage.buf # x.buf

C6_IncInplace ==
    (last.op = "IncDiagonalSubtensor" /\ last.inplace /\ last.err = "none") =>
        /\ output_storage = x
        /\ \A idx \in Indices(x.shape) :
              Load(mem, x, idx) =
                  Load(last.pre, x, idx)
                  + (IF InStripe(x.shape, i0, i1, idx)
                     THEN last.amt[ViewIdxOf(x.shape, i0, i1, idx)]
                     ELSE 0)

C6_ViewWrite ==
    (last.op = "write" /\ out_op = [op |-> "DiagonalSubtensor", inplace |-> TRUE]) =>
        /\ InStripe(x.shape, i0, i1, SrcIdxOf(x.shape, i0, i1, last.idx))
        /\ \A idx \in Indices(x.shape) :
              Load(mem, x, idx) =
                  IF idx = SrcIdxOf(x.shape, i0, i1, last.idx)
                  THEN WriteVal
                  ELSE Load(last.pre, x, idx)

C6_AliasingPolicy == C6_DefaultCopies /\ C6_IncInplace /\ C6_ViewWrite

C6_Witness ==
    /\ last.op = "write"
    /\ out_op = [op |-> "DiagonalSubtensor", inplace |-> TRUE]
    /\ x.shape[i1 + 1] = 2
    /\ last.idx[i1 + 1] = 1
    /\ mem.x # x_init
    /\ steps = 2

C6_WitnessDefault ==
    /\ last.op = "write"
    /\ all_default
    /\ out_op.op = "IncDiagonalSubtensor"
    /\ mem.o # last.pre.o

N0 == x.shape[i0 + 1]
N1 == x.shape[i1 + 1]

\* numpy.arange(20).reshape(5, 4) and the view the test expects of it
Arange54 == NewArray("x", <<5, 4>>)
Arange54Mem == [x |-> [p \in 1..20 |-> p - 1], o |-> <<>>]
Expected54 == <<<<12, 9, 6, 3>>, <<16, 13, 10, 7>>>>

ViewContract(v) ==
    /\ v.err = "none"
    /\ v.val.buf = x.buf
    /\ v.val.shape = [x.shape EXCEPT ![i0 + 1] = N0 - (N1 - 1)]
    /\ \A vidx \in Indices(v.val.shape) :
          /\ SrcIdxOf(x.shape, i0, i1, vidx) \in Indices(x.shape)
          /\ Addr(v.val, vidx) = Addr(x, SrcIdxOf(x.shape, i0, i1, vidx))
          /\ Load(mem, v.val, vidx) = Load(mem, x, SrcIdxOf(x.shape, i0, i1, vidx))
    /\ N1 = 1 => v.val = x

C3_RoundTrip ==
    (last.op = "roundtrip" /\ N0 >= N1) =>
        /\ "raised" \notin DOMAIN last.res
        /\ last.res.shape = x.shape
        /\ \A idx \in Indices(x.shape) :
              last.res.data[idx] = IF InStripe(x.shape, i0, i1, idx)
                                   THEN Load(mem, x, idx)
                                   ELSE 0

C3_Witness ==
    /\ last.op = "roundtrip"
    /\ N0 = 2 /\ N1 = 2
    /\ "raised" \notin DOMAIN last.res
    /\ \E idx, jdx \in Indices(x.shape) :
          /\ last.res.data[idx] = 0 /\ Load(mem, x, idx) # 0
          /\ last.res.data[jdx] # 0

Mul(f, g) == [e \in DOMAIN f |-> f[e] * g[e]]

\* C8: for shape[i0] >= shape[i1] and every upstream gradient g of the view's
\* shape, the gradient DiagonalSubtensor returns for x is the scatter-add of g
\* into zeros, it satisfies sum(view(x) * g) = sum(x * gx), and the gradients
\* for the two axes are disconnected; the gradient IncDiagonalSubtensor
\* returns for x is the upstream gradient, for amt the diagonal view of the
\* upstream gradient, and for the two axes disconnected.
C8_GradDiag ==
    (last.op = "grad_diag" /\ N0 >= N1) =>
        LET v == get_diagonal_subtensor_view(x, i0, i1).val
        IN /\ "raised" \notin DOMAIN last.gx
           /\ last.gx.shape = x.shape
           /\ \A idx \in Indices(x.shape) :
                 last.gx.data[idx] = IF InStripe(x.shape, i0, i1, idx)
                                     THEN last.g.data[ViewIdxOf(x.shape, i0, i1, idx)]
                                     ELSE 0
           /\ SumOver(Mul(Dense(mem, v), last.g.data), Indices(v.shape))
                 = SumOver(Mul(Dense(mem, x), last.gx.data), Indices(x.shape))
           /\ last.grads[2] = Disconnected
           /\ last.grads[3] = Disconnected

C8_GradInc ==
    (last.op = "grad_inc" /\ N0 >= N1) =>
        /\ last.gx = last.gy
        /\ "raised" \notin DOMAIN last.gamt
        /\ last.gamt.shape = AmtShape(x, i0, i1)
        /\ \A vidx \in Indices(last.gamt.shape) :
              last.gamt.data[vidx] = last.gy.data[SrcIdxOf(x.shape, i0, i1, vidx)]
        /\ last.grads[2] = Disconnected
        /\ last.grads[3] = Disconnected

C8_AdjointContract == C8_GradDiag /\ C8_GradInc

C8_Witness ==
    /\ last.op = "grad_diag"
    /\ N0 = 2 /\ N1 = 2
    /\ Len(x.shape) = 3
    /\ Size(x.shape) = 8
    /\ "raised" \notin DOMAIN last.gx
    /\ SumOver(Mul(Dense(mem, x), last.gx.data), Indices(x.shape)) > 0

\* --------------------------------------------------------- conv3d: claims
BM == IF cv.border_mode.str
      THEN <<cv.border_mode.v[1], cv.border_mode.v[1], cv.border_mode.v[1]>>
      ELSE cv.border_mode.v
VFH == {"valid", "full", "half"}
cNs == cv.signals_shape[1]
cTs == cv.signals_shape[2]
cHs == cv.signals_shape[4]
cWs == cv.signals_shape[5]
cNf == cv.filters_shape[1]
cTf == cv.filters_shape[2]
cHf == cv.filters_shape[4]
cWf == cv.filters_shape[5]
Returned == cv.op = "conv3d" /\ ~Raised(cv.res)

\* the time padding the claims name
ClaimTpad == CASE BM[1] = "valid" -> 0
               [] BM[1] = "full" -> cTf - 1
               [] BM[1] = "half" -> cTf \div 2

\* the valid / full / half size formula the claims name
ClaimExtent(mode, s, f) ==
    CASE mode = "valid" -> s - f + 1
      [] mode = "full" -> s + f - 1
      [] mode = "half" -> s - (f % 2) + 1

\* P[n, t, f, k, h, w]: the result of the 2-D convolution of frame (n, t)
\* with filter frame (f, k), zero for t in the padding
PPadded(n, t, f, k, h, w) ==
    LET out_4d == conv2d(<<cNs * cTs, Channels, cHs, cWs>>,
                         <<cNf * cTf, Channels, cHf, cWf>>, BM[2], cv.k)
    IN IF ClaimTpad <= t /\ t < cTs + ClaimTpad
       THEN out_4d.data[<<n * cTs + (t - ClaimTpad), f * cTf + k, h, w>>]
       ELSE 0

RECURSIVE WindowSum(_, _)
\* sum over k' in 0..k of P[n, t + Tf - 1 - k', f, k', h, w]
WindowSum(idx, k) ==
    IF k < 0 THEN 0
    ELSE PPadded(idx[1], idx[2] + cTf - 1 - k, idx[3], k, idx[4], idx[5])
         + WindowSum(idx, k - 1)

\* C2: for a time border mode in {valid, full, half} and every Tf >= 1 the
\* output of conv3d at (n, t, f, h, w) is the sum over k in 0..Tf-1 of
\* P[n, t + Tf - 1 - k, f, k, h, w], P zero-padded by Tpad at both ends of
\* the signal-time axis, on the Tf = 1 path and on the Tf > 1 path.
C2_SlidingWindow ==
    (Returned /\ BM[1] \in VFH) =>
        /\ cv.res.shape[2] = cTs + 2 * ClaimTpad - cTf + 1
        /\ \A idx \in Indices(cv.res.shape) :
              cv.res.data[idx] = WindowSum(idx, cTf - 1)

C2_Witness ==
    /\ Returned
    /\ BM = <<"half", "full", "full">>
    /\ cTf = 2 /\ cTs = 3
    /\ cHf = 2 /\ cWf = 2
    /\ cv.res.shape = <<cNs, 4, cNf, 3, 4>>
    /\ \E idx \in Indices(cv.res.shape) : cv.res.data[idx] > 5

C2_WitnessShortcut ==
    /\ Returned
    /\ BM[1] = "full"
    /\ cTf = 1 /\ cTs = 3

\* C4 as stated: a call whose border-mode triple holds "same" in the time,
\* height or width position fails for every Tf, Tf = 1 included.
C4_SameRejected ==
    (cv.op = "conv3d" /\ "same" \in {BM[1], BM[2], BM[3]}) => Raised(cv.res)

\* C7: when conv3d returns, the output shape is (Ns, Ts', Nf, Hout, Wout)
\* with Hout, Wout by the valid / full / half formula of the height / width
\* mode, Ts' = Ts on the Tf = 1 path and Ts + 2*Tpad - Tf + 1 on the Tf > 1
\* path, which is the same formula applied to (Ts, Tf).
C7_OutputShape ==
    Returned =>
        /\ BM[2] \in VFH /\ BM[3] = BM[2]
        /\ cv.res.shape[1] = cNs
        /\ cv.res.shape[3] = cNf
        /\ cv.res.shape[4] = ClaimExtent(BM[2], cHs, cHf)
        /\ cv.res.shape[5] = ClaimExtent(BM[3], cWs, cWf)
        /\ Len(cv.res.shape) = 5
        /\ cTf = 1 => cv.res.shape[2] = cTs
        /\ cTf > 1 => /\ BM[1] \in VFH
                      /\ cv.res.shape[2] = cTs + 2 * ClaimTpad - cTf + 1
        /\ BM[1] \in VFH => cv.res.shape[2] = ClaimExtent(BM[1], cTs, cTf)

C7_Witness ==
    /\ Returned
    /\ BM = <<"half", "half", "half">>
    /\ cTf = 2 /\ cTs = 2
    /\ cHf = 2 /\ cWf = 1
    /\ cv.res.shape = <<cNs, 3, cNf, 3, 3>>

OutLength == fv.n

\* C10 as stated: with half requested and axis 0 or 1, an odd output length
\* is a ValueError and stores no spectrum, an even one stores exactly the
\* entries 0 .. L/2 - 1 along the axis and all entries along the other axis;
\* a complex input with half requested is a TypeError at node construction.
C10_HalfSpectrum ==
    /\ (fv.op = "make_node" /\ fv.half /\ fv.dtype = "complex128") =>
           fv.err = "TypeError"
    /\ (fv.op = "perform" /\ fv.half /\ fv.axis \in {0, 1}) =>
           LET full == numpy_fft(IF fv.inverse THEN "ifft" ELSE "fft",
                                 fv.frames, fv.n, fv.axis).val
           IN IF OutLength % 2 = 1
              THEN fv.err = "ValueError" /\ fv.spectrogram = NoneVal
              ELSE /\ fv.err = "none"
                   /\ fv.spectrogram =
                         IF fv.axis = 0
                         THEN SubSeq(full, 1, OutLength \div 2)
                         ELSE [r \in 1..Len(full) |->
                                  SubSeq(full[r], 1, OutLength \div 2)]

ViewOfX == get_diagonal_subtensor_view(x, i0, i1)

C12_InBounds ==
    \A vi \in Indices(ViewOfX.val.shape) :
        LET src == SrcIdxOf(x.shape, i0, i1, vi)
        IN /\ 0 <= src[i0 + 1] /\ src[i0 + 1] < N0
           /\ src \in Indices(x.shape)
           /\ Addr(ViewOfX.val, vi) = Addr(x, src)
           /\ 0 <= Addr(ViewOfX.val, vi) /\ Addr(ViewOfX.val, vi) < Len(mem[x.buf])

C12_NoOverlap ==
    \A vi, vj \in Indices(ViewOfX.val.shape) :
        vi # vj => Addr(ViewOfX.val, vi) # Addr(ViewOfX.val, vj)

C12_EachOnce ==
    \A idx \in Indices(x.shape) :
        LET hits == {vi \in Indices(ViewOfX.val.shape) :
                        Addr(ViewOfX.val, vi) = Addr(x, idx)}
        IN /\ Cardinality(hits) <= 1
           /\ Load(mem, output_storage, idx)
                 = Load(last.pre, x, idx) + SumOver(last.amt, hits)

C12_ViewSafe ==
    (last.op = "IncDiagonalSubtensor" /\ N0 >= N1 /\ N1 >= 1) =>
        /\ last.err = "none"
        /\ ViewOfX.err = "none"
        /\ DOMAIN last.amt = Indices(ViewOfX.val.shape)
        /\ C12_InBounds
        /\ C12_NoOverlap
        /\ C12_EachOnce
        /\ last.inplace => output_storage = x

C12_Witness ==
    /\ last.op = "IncDiagonalSubtensor"
    /\ last.inplace
    /\ last.err = "none"
    /\ Len(x.shape) = 3
    /\ N0 = 2 /\ N1 = 2
    /\ i0 > i1
    /\ Size(x.shape) = 8
    /\ steps = 2
    /\ \E idx \in Indices(x.shape) :
          /\ InStripe(x.shape, i0, i1, idx)
          /\ Load(mem, x, idx) # Load(last.pre, x, idx)
    /\ \E idx \in Indices(x.shape) :
          /\ ~InStripe(x.shape, i0, i1, idx)
          /\ Load(mem, x, idx) = Load(last.pre, x, idx)

====
